---- MODULE Spec2Model ----
(***************************************************************************)
(* MU Seat Finder.  The loop-based monitor (seatFinder + pollOnce) of       *)
(* revisions 2.0 (src/seat-finder.js, second half) and 2.1                 *)
(* (src/unnamed/part_000), and the recursive monitor (searchCourses) of    *)
(* revision 1 (src/index.js).  One main coroutine that suspends at every   *)
(* await, plus the SIGINT/SIGTERM handler of the loop-based revisions,     *)
(* which runs while the coroutine is suspended.                            *)
(* The mail relay, the DNS lookup, the browser and the course-list page    *)
(* are the environment: each awaited call resolves or rejects.             *)
(***************************************************************************)
EXTENDS Integers, Sequences, FiniteSets, TLC

\* ------------------------------------------------------------------ bounds
NumCRNs == 2        \* distinct CRNs the operator may type in
MaxSeats == 2       \* largest number that appears in a status text
MaxExtra == 1       \* most fields of a status text after the second
MaxSignals == 1     \* stop signals delivered in one run
MaxOutage == 3      \* consecutive failed probes that are told apart
MaxAttempts == 4    \* largest `attempts` withRetry is tried with

\* withRetry(fn, attempts = 3, delay = 2000)
DefaultAttempts == 3
TermCodeLen == 6

CRNs == 1..NumCRNs
LoopRevisions == {"v20", "v21"}
Revisions == {"v1"} \cup LoopRevisions

VARIABLES
    rev,              \* which revision of the monitor runs
    pc,               \* the await the main coroutine is suspended at
    courses,          \* keys of monitor.#courses, in insertion order
    confirmationSent, \* monitor.confirmationSent
    browser,          \* module-level `browser` and the state of its process
    handlers,         \* SIGINT/SIGTERM handlers registered
    running,          \* `running` flag of revision 2.0
    snapshot,         \* monitor.all as evaluated by the for-of of pollOnce
    idx,              \* position of the for-of in snapshot
    navTry,           \* i of withRetry
    status,           \* fields of `status` (status.split('/')) while it is in scope
    err,              \* the error caught by the top-level catch
    exitCode,         \* argument of process.exit, -1 while the process lives
    hpending,         \* handler invocations awaiting browser.close()
    signals,          \* stop signals delivered so far
    confSends,        \* confirmation mails accepted by the relay
    noticeSends,      \* per CRN: seat notifications accepted by the relay
    failedSends,      \* CRNs for which a notification send was rejected
    closeCalls,       \* calls of close() on the browser of the latest launch
    outage,           \* failed probes in a row, up to MaxOutage
    entry,            \* what the latest prompt of the CRN input loop added
    termCode,         \* module-level `termCode`, as its characters
    attempts,         \* parameter `attempts` of withRetry
    lastErr           \* withRetry: the call whose error `err` holds, 0 for none

vars == <<rev, pc, courses, confirmationSent, browser, handlers, running,
          snapshot, idx, navTry, status, err, exitCode, hpending, signals,
          confSends, noticeSends, failedSends, closeCalls, outage,
          entry, termCode, attempts, lastErr>>

ctl == <<pc, browser, closeCalls, running, exitCode, err>>
mail == <<confSends, noticeSends, failedSends>>
sig == <<hpending, signals, handlers>>

\* ------------------------------------------------------- CourseMonitor
Keys(m) == {m[i] : i \in 1..Len(m)}

\* variant: a list that is appended to, not a Map
AddAlways(m, crn) == Append(m, crn)

\* add(crn): Map.set keeps one entry per key, at the place of its first insertion
Add(m, crn) == IF crn \in Keys(m) THEN m ELSE Append(m, crn)

\* delete(crn): Map.delete, a no-op when the key is absent
Delete(m, crn) == SelectSeq(m, LAMBDA k : k # crn)

\* get all(): [...keys()], a fresh array
All(m) == m

\* get size()
Size(m) == Len(m)

\* ------------------------------------------------------- status text
\* A status text is given by what status.split('/') makes of it: the first
\* field, the second field when there is a separator, and the number of
\* further fields (nothing reads their contents).  A field is a run of
\* digits ("num"), the empty string ("empty") or text without a leading
\* digit ("text"), which neither Number nor parseInt reads as a number.
Field == [k : {"num"}, v : 0..MaxSeats] \cup [k : {"empty", "text"}, v : {0}]
StatusTexts ==
    [f : [1..1 -> Field], extra : {0}]
        \cup [f : [1..2 -> Field], extra : 0..MaxExtra]
NoStatus == [f |-> <<>>, extra |-> 0]

NaN == [nan |-> TRUE, v |-> 0]
Num(n) == [nan |-> FALSE, v |-> n]

\* Number(field): digits to their value, "" to 0, anything else to NaN
Number(f) == CASE f.k = "num" -> Num(f.v)
               [] f.k = "empty" -> Num(0)
               [] OTHER -> NaN

\* const [current, max] = status.split('/').map(Number): a missing second
\* element is undefined, which the subtraction turns into NaN; further
\* elements are dropped
Current(s) == Number(s.f[1])
Max(s) == IF Len(s.f) >= 2 THEN Number(s.f[2]) ELSE NaN

Minus(a, b) == IF a.nan \/ b.nan THEN NaN ELSE Num(a.v - b.v)

\* variant: the test is `max - current`, true for every non-zero difference
SeatsAvailableNonZero(s) ==
    LET d == Minus(Max(s), Current(s)) IN ~d.nan /\ d.v # 0

\* max - current > 0 (false for NaN)
SeatsAvailable(s) == LET d == Minus(Max(s), Current(s)) IN ~d.nan /\ d.v > 0

\* variant: the delete is not skipped by a rejected send
AfterSendDeleteAlways(m, crn, ok) == Delete(m, crn)

\* variant: the delete is forgotten
AfterSendKeep(m, crn, ok) == m

\* variant: a rejected send moves the CRN to the end of the registry
AfterSendRequeue(m, crn, ok) ==
    IF ok THEN Delete(m, crn) ELSE Append(Delete(m, crn), crn)

\* the registry after `await sendMail(...); monitor.delete(crn)`: a rejected
\* send throws past the delete
AfterSend(m, crn, ok) == IF ok THEN Delete(m, crn) ELSE m

\* ------------------------------------------------------- network
\* how dns.lookup of the mail host can end: with an address, or rejected
\* with the host unknown, with no answer from the resolver in time, or with
\* another resolver error
LookupOutcomes == {"address", "ENOTFOUND", "EAI_AGAIN", "ESERVFAIL"}

\* variant: only an unknown host is caught
CheckMiamiConnectionUncaught(lookup) ==
    [threw |-> lookup \in {"EAI_AGAIN", "ESERVFAIL"}, value |-> lookup = "address"]

\* try { await DNS_LOOKUP(MIAMI_DNS); return true; } catch { return false; }
\* as what the call does: whether it throws, and the value it returns
CheckMiamiConnection(lookup) ==
    [threw |-> FALSE, value |-> lookup = "address"]

\* ------------------------------------------------------- control
\* browser.close() on a browser that is already closing or closed changes nothing
Closing(b) == IF b = "open" THEN "closing" ELSE b

\* a page operation can resolve only while the browser process is alive
PageOutcomes == IF browser = "closed" THEN {FALSE} ELSE BOOLEAN

\* the run of failed probes after a probe that returned ok
AfterProbe(n, ok) ==
    IF ok THEN 0 ELSE IF n < MaxOutage THEN n + 1 ELSE n

\* the coroutine suspends at the next await
Resume(p) ==
    /\ pc' = p
    /\ UNCHANGED <<browser, closeCalls, running, exitCode, err>>

\* variant: the top-level catch exits without closing the browser
ThrowNoClose(e) ==
    /\ err' = e
    /\ running' = running
    /\ pc' = "exited"
    /\ exitCode' = 1
    /\ UNCHANGED <<browser, closeCalls>>

\* an exception that reaches the top-level catch:
\*     console.error('Fatal:', e.message);
\*     if (browser) await browser.close();
\*     process.exit(1);
Throw(e) ==
    /\ err' = e
    /\ running' = running
    /\ IF browser = "undefined"
       THEN /\ pc' = "exited"
            /\ exitCode' = 1
            /\ UNCHANGED <<browser, closeCalls>>
       ELSE /\ pc' = "fatalClose"
            /\ browser' = Closing(browser)
            /\ closeCalls' = closeCalls + 1
            /\ exitCode' = exitCode

\* the loop is left: console.log(...); await cleanup();
\* cleanup of 2.0 clears `running` before it closes the browser
StartCleanup ==
    /\ pc' = "cleanup"
    /\ running' = (IF rev = "v20" THEN FALSE ELSE running)
    /\ browser' = Closing(browser)
    /\ closeCalls' = closeCalls + 1
    /\ UNCHANGED <<exitCode, err>>

\* while (monitor.size)  /  while (running && monitor.size)
LoopCondition(m) == (rev = "v20" => running) /\ Size(m) > 0

LoopTest(m) == IF LoopCondition(m) THEN Resume("probe") ELSE StartCleanup

\* variant: the sleep is not guarded by monitor.size
AfterPollAlwaysSleep(m) == Resume("cadence")

\* variant: the cadence sleep is missing
AfterPollNoSleep(m) == LoopTest(m)

\* pollOnce has returned: if (monitor.size) await sleep(CHECK_INTERVAL);
AfterPoll(m) == IF Size(m) > 0 THEN Resume("cadence") ELSE LoopTest(m)

\* variant: the catch sits around the for-of, so the first CRN ends the cycle
EndIterationBreak(m) == idx' = idx /\ AfterPoll(m)

\* the body of the for-of is done for snapshot[idx], normally or through
\* the catch around the status read
EndIteration(m) ==
    IF idx < Len(snapshot)
    THEN idx' = idx + 1 /\ Resume("enterCRN")
    ELSE idx' = idx /\ AfterPoll(m)

\* ------------------------------------------------------- initial state
Init ==
    /\ rev \in Revisions
    /\ pc = "email"
    /\ courses = <<>>
    /\ confirmationSent = FALSE
    /\ browser = "undefined"
    /\ handlers = FALSE
    /\ running = TRUE
    /\ snapshot = <<>>
    /\ idx = 0
    /\ navTry = 0
    /\ status = NoStatus
    /\ err = "none"
    /\ exitCode = -1
    /\ hpending = 0
    /\ signals = 0
    /\ confSends = 0
    /\ noticeSends = [c \in CRNs |-> 0]
    /\ failedSends = {}
    /\ closeCalls = 0
    /\ outage = 0
    /\ entry = "none"
    /\ termCode = <<>>
    /\ attempts = DefaultAttempts
    /\ lastErr = 0

\* ------------------------------------------------------- setup (CLI)
MIAMI_EMAIL_DOMAIN == "@miamioh.edu"

\* answers to the email prompt, cut where endsWith looks: the text before
\* the last part that begins with "@" or ".", then that part
Emails == { <<"uniqueid", "@miamioh.edu">>,
            <<"@miamioh.edu">>,
            <<"uniqueid", "@gmail.com">>,
            <<"uniqueid", "@miamioh.edu", ".example.org">>,
            <<"uniqueid">>,
            <<>> }

\* email.endsWith(suffix)
EndsWith(text, suffix) == Len(text) > 0 /\ text[Len(text)] = suffix

Digits == {"0", "1", "2", "3", "4", "5", "6", "7", "8", "9"}

\* answers to the year prompt, as characters
Years == { <<"2", "0", "2", "6">>,
           <<"2", "0", "2">>,
           <<"2", "0", "2", "6", "0">>,
           <<"2", "0", "x", "6">>,
           <<>> }

\* answers to the term prompt
TermChoices == {"1", "4", "5", "", "constructor"}

\* `${Object}`: the text of a built-in function
NativeCode ==
    <<"f", "u", "n", "c", "t", "i", "o", "n", " ", "O", "b", "j", "e", "c",
      "t", "(", ")", " ", "{", " ", "[", "n", "a", "t", "i", "v", "e", " ",
      "c", "o", "d", "e", "]", " ", "}">>

\* variant: Summer is given the suffix 40
TermMapShifted(termChoice) ==
    CASE termChoice = "1" -> [t |-> "string", s |-> <<"1", "0">>]
      [] termChoice = "2" -> [t |-> "string", s |-> <<"1", "5">>]
      [] termChoice = "3" -> [t |-> "string", s |-> <<"2", "0">>]
      [] termChoice = "4" -> [t |-> "string", s |-> <<"4", "0">>]
      [] termChoice = "constructor" -> [t |-> "function", s |-> NativeCode]
      [] OTHER -> [t |-> "undefined", s |-> <<>>]

\* termMap[termChoice] for termMap = { 1: '10', 2: '15', 3: '20', 4: '30' }:
\* an own key gives its string, a key of Object.prototype what the object
\* inherits, any other key undefined
TermMap(termChoice) ==
    CASE termChoice = "1" -> [t |-> "string", s |-> <<"1", "0">>]
      [] termChoice = "2" -> [t |-> "string", s |-> <<"1", "5">>]
      [] termChoice = "3" -> [t |-> "string", s |-> <<"2", "0">>]
      [] termChoice = "4" -> [t |-> "string", s |-> <<"3", "0">>]
      [] termChoice = "constructor" -> [t |-> "function", s |-> NativeCode]
      [] OTHER -> [t |-> "undefined", s |-> <<>>]

\* the truth value of v in `!v`
Truthy(v) == v.t # "undefined" /\ ~(v.t = "string" /\ v.s = <<>>)

\* /^\d{6}$/.test(code)
IsTermCode(code) == Len(code) = TermCodeLen /\ \A i \in 1..Len(code) : code[i] \in Digits

\* const email = PROMPT(...).trim();
\* if (!email.endsWith(MIAMI_EMAIL_DOMAIN)) throw new Error(...);
\* revision 1 goes on to the CRN prompts, the others to the term prompts
EnterEmail(email) ==
    /\ pc = "email"
    /\ IF ~EndsWith(email, MIAMI_EMAIL_DOMAIN) THEN Throw("email")
       ELSE IF rev = "v1" THEN Resume("setup")
       ELSE Resume("term")
    /\ UNCHANGED <<rev, courses, confirmationSent, snapshot, idx, navTry, status>>
    /\ UNCHANGED <<mail, sig>>
    /\ UNCHANGED outage
    /\ UNCHANGED entry
    /\ UNCHANGED termCode
    /\ UNCHANGED <<attempts, lastErr>>

\* variant: the test of the generated code is missing
EnterTermUnchecked(year, termChoice) ==
    /\ pc = "term"
    /\ IF ~Truthy(TermMap(termChoice))
       THEN termCode' = termCode /\ Throw("term")
       ELSE termCode' = year \o TermMap(termChoice).s /\ Resume("setup")
    /\ UNCHANGED <<rev, courses, confirmationSent, snapshot, idx, navTry, status>>
    /\ UNCHANGED <<mail, sig>>
    /\ UNCHANGED outage
    /\ UNCHANGED entry
    /\ UNCHANGED <<attempts, lastErr>>

\* if (!termMap[termChoice]) throw new Error('Invalid term choice.');
\* termCode = `${year}${termMap[termChoice]}`;
\* if (!/^\d{6}$/.test(termCode)) throw new Error('Term code must be 6 digits.');
EnterTerm(year, termChoice) ==
    /\ pc = "term"
    /\ IF ~Truthy(TermMap(termChoice))
       THEN termCode' = termCode /\ Throw("term")
       ELSE /\ termCode' = year \o TermMap(termChoice).s
            /\ IF IsTermCode(termCode') THEN Resume("setup")
               ELSE Throw("termCode")
    /\ UNCHANGED <<rev, courses, confirmationSent, snapshot, idx, navTry, status>>
    /\ UNCHANGED <<mail, sig>>
    /\ UNCHANGED outage
    /\ UNCHANGED entry
    /\ UNCHANGED <<attempts, lastErr>>

\* a CRN is typed in: monitor.add(crn)
AddCRN(crn) ==
    /\ pc = "setup"
    /\ courses' = Add(courses, crn)
    /\ entry' = (IF crn \in Keys(courses) THEN "duplicate" ELSE "new")
    /\ UNCHANGED <<rev, confirmationSent, snapshot, idx, navTry, status>>
    /\ UNCHANGED <<ctl, mail, sig>>
    /\ UNCHANGED outage
    /\ UNCHANGED termCode
    /\ UNCHANGED <<attempts, lastErr>>

\* variant: an empty input always ends the CRN prompts
StartRunUnguarded ==
    /\ pc = "setup"
    /\ Resume("connect")
    /\ entry' = "none"
    /\ UNCHANGED <<rev, courses, confirmationSent, snapshot, idx, navTry, status>>
    /\ UNCHANGED <<mail, sig>>
    /\ UNCHANGED outage
    /\ UNCHANGED termCode
    /\ UNCHANGED <<attempts, lastErr>>

\* empty input: if (monitor.size) break; otherwise 'Add at least one CRN.'
\* and the prompt again.  After the break comes the final network check.
StartRun ==
    /\ pc = "setup"
    /\ IF Size(courses) > 0
       THEN Resume("connect") /\ entry' = "none"
       ELSE UNCHANGED ctl /\ entry' = "empty"
    /\ UNCHANGED <<rev, courses, confirmationSent, snapshot, idx, navTry, status>>
    /\ UNCHANGED <<mail, sig>>
    /\ UNCHANGED outage
    /\ UNCHANGED termCode
    /\ UNCHANGED <<attempts, lastErr>>

\* if (!(await checkMiamiConnection())) throw ...; await seatFinder(email);
\* seatFinder starts with the confirmation mail unless it was sent.
\* Revision 1 calls process.exit(1) itself when the check fails, and
\* searchCourses starts with a probe of its own.
InitialConnection(ok) ==
    /\ pc = "connect"
    /\ IF ~ok THEN Throw("network")
       ELSE IF rev = "v1" THEN Resume("sProbe")
       ELSE IF ~confirmationSent THEN Resume("confirm")
       ELSE Resume("launch")
    /\ UNCHANGED <<rev, courses, confirmationSent, snapshot, idx, navTry, status>>
    /\ UNCHANGED <<mail, sig>>
    /\ UNCHANGED outage
    /\ UNCHANGED entry
    /\ UNCHANGED termCode
    /\ UNCHANGED <<attempts, lastErr>>

\* ------------------------------------------------------- seatFinder

\* variant: the flag is not set after the send
ConfirmNoMark(ok) ==
    /\ pc = "confirm"
    /\ IF ok
       THEN /\ confSends' = confSends + 1
            /\ Resume("launch")
       ELSE /\ confSends' = confSends
            /\ Throw("mail")
    /\ UNCHANGED <<rev, courses, confirmationSent, snapshot, idx, navTry, status>>
    /\ UNCHANGED <<noticeSends, failedSends, sig>>
    /\ UNCHANGED outage
    /\ UNCHANGED entry
    /\ UNCHANGED termCode
    /\ UNCHANGED <<attempts, lastErr>>

\* variant: a rejected confirmation send is ignored
ConfirmAdvisory(ok) ==
    /\ pc = "confirm"
    /\ IF ok
       THEN /\ confirmationSent' = TRUE
            /\ confSends' = confSends + 1
       ELSE UNCHANGED <<confirmationSent, confSends>>
    /\ Resume("launch")
    /\ UNCHANGED <<rev, courses, snapshot, idx, navTry, status>>
    /\ UNCHANGED <<noticeSends, failedSends, sig>>
    /\ UNCHANGED outage
    /\ UNCHANGED entry
    /\ UNCHANGED termCode
    /\ UNCHANGED <<attempts, lastErr>>

\* await sendMail(... 'MU Seat Finder monitoring started' ...);
\* monitor.confirmationSent = true;
Confirm(ok) ==
    /\ pc = "confirm"
    /\ IF ok
       THEN /\ confirmationSent' = TRUE
            /\ confSends' = confSends + 1
            /\ Resume("launch")
       ELSE /\ UNCHANGED <<confirmationSent, confSends>>
            /\ Throw("mail")
    /\ UNCHANGED <<rev, courses, snapshot, idx, navTry, status>>
    /\ UNCHANGED <<noticeSends, failedSends, sig>>
    /\ UNCHANGED outage
    /\ UNCHANGED entry
    /\ UNCHANGED termCode
    /\ UNCHANGED <<attempts, lastErr>>

\* browser = await puppeteer.launch(buildLaunchOpts());
Launch(ok) ==
    /\ pc = "launch"
    /\ IF ok
       THEN /\ pc' = "newPage"
            /\ browser' = "open"
            /\ UNCHANGED <<closeCalls, running, exitCode, err>>
       ELSE Throw("launch")
    /\ UNCHANGED <<rev, courses, confirmationSent, snapshot, idx, navTry, status>>
    /\ UNCHANGED <<mail, sig>>
    /\ UNCHANGED outage
    /\ UNCHANGED entry
    /\ UNCHANGED termCode
    /\ UNCHANGED <<attempts, lastErr>>

\* newPage, setUserAgent, setDefaultNavigationTimeout; then the handlers are
\* registered and the while loop is entered
NewPage(ok) ==
    /\ pc = "newPage"
    /\ IF ok
       THEN handlers' = TRUE /\ LoopTest(courses)
       ELSE handlers' = handlers /\ Throw("page")
    /\ UNCHANGED <<rev, courses, confirmationSent, snapshot, idx, navTry, status>>
    /\ UNCHANGED <<mail, hpending, signals>>
    /\ UNCHANGED outage
    /\ UNCHANGED entry
    /\ UNCHANGED termCode
    /\ UNCHANGED <<attempts, lastErr>>

\* variant: an unreachable probe inside the loop is thrown like the one of main
ProbeFatal(ok) ==
    /\ pc = "probe"
    /\ IF ok THEN Resume("goto") ELSE Throw("network")
    /\ outage' = AfterProbe(outage, ok)
    /\ UNCHANGED <<rev, courses, confirmationSent, snapshot, idx, navTry, status>>
    /\ UNCHANGED <<mail, sig>>
    /\ UNCHANGED entry
    /\ UNCHANGED termCode
    /\ UNCHANGED <<attempts, lastErr>>

\* variant: the result of the probe is logged but the iteration goes on
ProbeAdvisory(ok) ==
    /\ pc = "probe"
    /\ Resume("goto")
    /\ outage' = AfterProbe(outage, ok)
    /\ UNCHANGED <<rev, courses, confirmationSent, snapshot, idx, navTry, status>>
    /\ UNCHANGED <<mail, sig>>
    /\ UNCHANGED entry
    /\ UNCHANGED termCode
    /\ UNCHANGED <<attempts, lastErr>>

\* if (!(await checkMiamiConnection())) { ...; await sleep(60_000); continue; }
\* await withRetry(() => page.goto(...))
Probe(ok) ==
    /\ pc = "probe"
    /\ IF ok THEN Resume("goto") ELSE Resume("backoff")
    /\ outage' = AfterProbe(outage, ok)
    /\ UNCHANGED <<rev, courses, confirmationSent, snapshot, idx, navTry, status>>
    /\ UNCHANGED <<mail, sig>>
    /\ UNCHANGED entry
    /\ UNCHANGED termCode
    /\ UNCHANGED <<attempts, lastErr>>

\* variant: the `continue` is missing, the navigation follows the sleep
BackoffFallThrough ==
    /\ pc = "backoff"
    /\ Resume("goto")
    /\ UNCHANGED <<rev, courses, confirmationSent, snapshot, idx, navTry, status>>
    /\ UNCHANGED <<mail, sig>>
    /\ UNCHANGED outage
    /\ UNCHANGED entry
    /\ UNCHANGED termCode
    /\ UNCHANGED <<attempts, lastErr>>

\* the 60 s sleep is over: continue
Backoff ==
    /\ pc = "backoff"
    /\ LoopTest(courses)
    /\ UNCHANGED <<rev, courses, confirmationSent, snapshot, idx, navTry, status>>
    /\ UNCHANGED <<mail, sig>>
    /\ UNCHANGED outage
    /\ UNCHANGED entry
    /\ UNCHANGED termCode
    /\ UNCHANGED <<attempts, lastErr>>

\* variant: one wait and one call too many
RetryingOffByOne(i, n) == i < n

\* withRetry, in the catch of call i: if (i < attempts - 1) await sleep(delay)
Retrying(i, n) == i < n - 1

\* withRetry: try { return await fn(); }
\*            catch (e) { err = e; if (i < attempts - 1) await sleep(delay); }
\* and throw err after the last attempt
Navigate(ok) ==
    /\ pc = "goto"
    /\ ok \in PageOutcomes
    /\ IF ok THEN Resume("filters")
       ELSE IF Retrying(navTry, attempts) THEN Resume("retryDelay")
       ELSE Throw("nav")
    /\ navTry' = (IF ok THEN 0 ELSE navTry)
    /\ lastErr' = (IF ok THEN 0 ELSE navTry + 1)
    /\ attempts' = attempts
    /\ UNCHANGED <<rev, courses, confirmationSent, snapshot, idx, status>>
    /\ UNCHANGED <<mail, sig>>
    /\ UNCHANGED outage
    /\ UNCHANGED entry
    /\ UNCHANGED termCode

\* sleep(delay) is over: i++
RetryDelay ==
    /\ pc = "retryDelay"
    /\ navTry' = navTry + 1
    /\ Resume("goto")
    /\ UNCHANGED <<rev, courses, confirmationSent, snapshot, idx, status>>
    /\ UNCHANGED <<mail, sig>>
    /\ UNCHANGED outage
    /\ UNCHANGED entry
    /\ UNCHANGED termCode
    /\ UNCHANGED <<attempts, lastErr>>

\* ------------------------------------------------------- pollOnce

\* variant: the for-of goes over the list of the first cycle again
FiltersStale(ok) ==
    /\ pc = "filters"
    /\ ok \in PageOutcomes
    /\ IF ~ok
       THEN Throw("filters") /\ UNCHANGED <<snapshot, idx>>
       ELSE /\ snapshot' = (IF snapshot = <<>> THEN All(courses) ELSE snapshot)
            /\ idx' = 1
            /\ Resume("enterCRN")
    /\ UNCHANGED <<rev, courses, confirmationSent, navTry, status>>
    /\ UNCHANGED <<mail, sig>>
    /\ UNCHANGED outage
    /\ UNCHANGED entry
    /\ UNCHANGED termCode
    /\ UNCHANGED <<attempts, lastErr>>

\* the term and campus filter steps, then `for (const crn of monitor.all)`
Filters(ok) ==
    /\ pc = "filters"
    /\ ok \in PageOutcomes
    /\ IF ~ok
       THEN Throw("filters") /\ UNCHANGED <<snapshot, idx>>
       ELSE /\ snapshot' = All(courses)
            /\ IF Len(All(courses)) > 0
               THEN idx' = 1 /\ Resume("enterCRN")
               ELSE idx' = 0 /\ AfterPoll(courses)
    /\ UNCHANGED <<rev, courses, confirmationSent, navTry, status>>
    /\ UNCHANGED <<mail, sig>>
    /\ UNCHANGED outage
    /\ UNCHANGED entry
    /\ UNCHANGED termCode
    /\ UNCHANGED <<attempts, lastErr>>

\* wait for, clear and fill #crnNumber, click #courseSearch (outside the try)
EnterCRN(ok) ==
    /\ pc = "enterCRN"
    /\ ok \in PageOutcomes
    /\ IF ok THEN Resume("waitStatus") ELSE Throw("crnEntry")
    /\ UNCHANGED <<rev, courses, confirmationSent, snapshot, idx, navTry, status>>
    /\ UNCHANGED <<mail, sig>>
    /\ UNCHANGED outage
    /\ UNCHANGED entry
    /\ UNCHANGED termCode
    /\ UNCHANGED <<attempts, lastErr>>

\* await page.waitForSelector(`#statusMessage${crn}`, { timeout: 7_000 });
\* a timeout is caught by the catch of this iteration
WaitStatus(ok) ==
    /\ pc = "waitStatus"
    /\ ok \in PageOutcomes
    /\ IF ok THEN idx' = idx /\ Resume("readStatus") ELSE EndIteration(courses)
    /\ UNCHANGED <<rev, courses, confirmationSent, snapshot, navTry, status>>
    /\ UNCHANGED <<mail, sig>>
    /\ UNCHANGED outage
    /\ UNCHANGED entry
    /\ UNCHANGED termCode
    /\ UNCHANGED <<attempts, lastErr>>

\* const status = await page.$eval(...); the split, and the test
\* `if (max - current > 0)` with the call of sendMail or the else branch
ReadStatus(ok, s) ==
    /\ pc = "readStatus"
    /\ ok \in PageOutcomes
    /\ IF ~ok
       THEN status' = NoStatus /\ EndIteration(courses)
       ELSE IF SeatsAvailable(s)
            THEN status' = s /\ idx' = idx /\ Resume("notify")
            ELSE status' = NoStatus /\ EndIteration(courses)
    /\ UNCHANGED <<rev, courses, confirmationSent, snapshot, navTry>>
    /\ UNCHANGED <<mail, sig>>
    /\ UNCHANGED outage
    /\ UNCHANGED entry
    /\ UNCHANGED termCode
    /\ UNCHANGED <<attempts, lastErr>>

\* await sendMail(...); console.log(...); monitor.delete(crn);
\* a rejected send is caught by the catch of this iteration
Notify(ok) ==
    /\ pc = "notify"
    /\ courses' = AfterSend(courses, snapshot[idx], ok)
    /\ IF ok
       THEN /\ noticeSends' = [noticeSends EXCEPT ![snapshot[idx]] = @ + 1]
            /\ failedSends' = failedSends
       ELSE /\ noticeSends' = noticeSends
            /\ failedSends' = failedSends \cup {snapshot[idx]}
    /\ status' = NoStatus
    /\ EndIteration(courses')
    /\ UNCHANGED <<rev, confirmationSent, snapshot, navTry>>
    /\ UNCHANGED <<confSends, sig>>
    /\ UNCHANGED outage
    /\ UNCHANGED entry
    /\ UNCHANGED termCode
    /\ UNCHANGED <<attempts, lastErr>>

\* sleep(CHECK_INTERVAL) is over
Cadence ==
    /\ pc = "cadence"
    /\ LoopTest(courses)
    /\ UNCHANGED <<rev, courses, confirmationSent, snapshot, idx, navTry, status>>
    /\ UNCHANGED <<mail, sig>>
    /\ UNCHANGED outage
    /\ UNCHANGED entry
    /\ UNCHANGED termCode
    /\ UNCHANGED <<attempts, lastErr>>

\* ------------------------------------------------------- searchCourses
\* parseInt(field): the value of the leading digits, NaN when there are none
ParseInt(f) == IF f.k = "num" THEN Num(f.v) ELSE NaN

\* if (statusMessage) {
\*   const [current, max] = statusMessage.split('/').map(num => parseInt(num));
\*   if (!isNaN(current) && !isNaN(max)) { ... if (availableSeats > 0)
\* the empty string is falsy; a missing second element is undefined, which
\* parseInt turns into NaN; further elements are dropped
AvailableSeats(s) ==
    LET current == ParseInt(s.f[1])
        max == IF Len(s.f) >= 2 THEN ParseInt(s.f[2]) ELSE NaN
    IN /\ ~(Len(s.f) = 1 /\ s.f[1].k = "empty")
       /\ ~current.nan
       /\ ~max.nan
       /\ max.v - current.v > 0

\* variant: the catch of searchCourses gives up
CatchCycleFatal(e) ==
    /\ pc' = "exited"
    /\ err' = e
    /\ exitCode' = 1
    /\ UNCHANGED <<browser, closeCalls, running>>

\* the catch of searchCourses: console.error(...); await browser.close();
CatchCycle(e) ==
    /\ pc' = "sClose"
    /\ err' = e
    /\ browser' = Closing(browser)
    /\ closeCalls' = closeCalls + 1
    /\ UNCHANGED <<running, exitCode>>

\* variant: the normal path goes to the cadence wait with its browser open
AfterSearchNoClose(m) ==
    IF Size(m) > 0
    THEN /\ pc' = "sSleep"
         /\ UNCHANGED <<browser, closeCalls, running, exitCode, err>>
    ELSE /\ pc' = "exited"
         /\ exitCode' = 0
         /\ UNCHANGED <<browser, closeCalls, running, err>>

\* after the for-of: if (monitor.courses.size > 0) { await browser.close(); ...
\* } else { process.exit(0); }
AfterSearch(m) ==
    IF Size(m) > 0
    THEN /\ pc' = "sClose"
         /\ browser' = Closing(browser)
         /\ closeCalls' = closeCalls + 1
         /\ UNCHANGED <<running, exitCode, err>>
    ELSE /\ pc' = "exited"
         /\ exitCode' = 0
         /\ UNCHANGED <<browser, closeCalls, running, err>>

\* the body of the for-of is done for snapshot[idx], normally or through
\* the catch around the status read
SearchEndIteration(m) ==
    IF idx < Len(snapshot)
    THEN idx' = idx + 1 /\ Resume("sEnterCRN")
    ELSE idx' = idx /\ AfterSearch(m)

\* const isConnected = await checkMiamiConnection(); if it is, the
\* confirmation mail comes next unless it was sent
SearchProbe(ok) ==
    /\ pc = "sProbe"
    /\ IF ~ok THEN Resume("sBackoff")
       ELSE IF ~confirmationSent THEN Resume("sConfirm")
       ELSE Resume("sLaunch")
    /\ outage' = AfterProbe(outage, ok)
    /\ UNCHANGED <<rev, courses, confirmationSent, snapshot, idx, navTry, status>>
    /\ UNCHANGED <<mail, sig>>
    /\ UNCHANGED entry
    /\ UNCHANGED termCode
    /\ UNCHANGED <<attempts, lastErr>>

\* the wait of one minute is over: return searchCourses(email)
SearchBackoff ==
    /\ pc = "sBackoff"
    /\ Resume("sProbe")
    /\ UNCHANGED <<rev, courses, confirmationSent, snapshot, idx, navTry, status>>
    /\ UNCHANGED <<mail, sig>>
    /\ UNCHANGED outage
    /\ UNCHANGED entry
    /\ UNCHANGED termCode
    /\ UNCHANGED <<attempts, lastErr>>

\* variant: the flag is set whether or not the send was accepted
SearchConfirmMarkAlways(ok, retry) ==
    /\ pc = "sConfirm"
    /\ confirmationSent' = (ok \/ retry)
    /\ confSends' = (IF ok THEN confSends + 1 ELSE confSends)
    /\ IF ok \/ retry
       THEN Resume("sLaunch")
       ELSE /\ pc' = "exited"
            /\ exitCode' = 1
            /\ UNCHANGED <<browser, closeCalls, running, err>>
    /\ UNCHANGED <<rev, courses, snapshot, idx, navTry, status>>
    /\ UNCHANGED <<noticeSends, failedSends, sig>>
    /\ UNCHANGED outage
    /\ UNCHANGED entry
    /\ UNCHANGED termCode
    /\ UNCHANGED <<attempts, lastErr>>

\* try { await sendConfirmationEmail(...); monitor.markConfirmationSent(); }
\* catch { retry = prompt(...); if (retry !== 'y') process.exit(1); }
SearchConfirm(ok, retry) ==
    /\ pc = "sConfirm"
    /\ IF ok
       THEN /\ confirmationSent' = TRUE
            /\ confSends' = confSends + 1
            /\ Resume("sLaunch")
       ELSE /\ UNCHANGED <<confirmationSent, confSends>>
            /\ IF retry
               THEN Resume("sLaunch")
               ELSE /\ pc' = "exited"
                    /\ exitCode' = 1
                    /\ UNCHANGED <<browser, closeCalls, running, err>>
    /\ UNCHANGED <<rev, courses, snapshot, idx, navTry, status>>
    /\ UNCHANGED <<noticeSends, failedSends, sig>>
    /\ UNCHANGED outage
    /\ UNCHANGED entry
    /\ UNCHANGED termCode
    /\ UNCHANGED <<attempts, lastErr>>

\* const browser = await puppeteer.launch(...): outside the try, so a
\* rejection reaches the catch of main, which calls process.exit(1)
SearchLaunch(ok) ==
    /\ pc = "sLaunch"
    /\ IF ok
       THEN /\ pc' = "sGoto"
            /\ browser' = "open"
            /\ closeCalls' = 0
            /\ UNCHANGED <<running, exitCode, err>>
       ELSE /\ pc' = "exited"
            /\ exitCode' = 1
            /\ err' = "launch"
            /\ UNCHANGED <<browser, closeCalls, running>>
    /\ UNCHANGED <<rev, courses, confirmationSent, snapshot, idx, navTry, status>>
    /\ UNCHANGED <<mail, sig>>
    /\ UNCHANGED outage
    /\ UNCHANGED entry
    /\ UNCHANGED termCode
    /\ UNCHANGED <<attempts, lastErr>>

\* newPage, setDefaultNavigationTimeout, page.goto (its error is rethrown to
\* the catch of searchCourses)
SearchGoto(ok) ==
    /\ pc = "sGoto"
    /\ IF ok THEN Resume("sFilters") ELSE CatchCycle("nav")
    /\ UNCHANGED <<rev, courses, confirmationSent, snapshot, idx, navTry, status>>
    /\ UNCHANGED <<mail, sig>>
    /\ UNCHANGED outage
    /\ UNCHANGED entry
    /\ UNCHANGED termCode
    /\ UNCHANGED <<attempts, lastErr>>

\* the filter steps, then `for (const crn of monitor.getCRNs())`
SearchFilters(ok) ==
    /\ pc = "sFilters"
    /\ IF ~ok
       THEN CatchCycle("filters") /\ UNCHANGED <<snapshot, idx>>
       ELSE /\ snapshot' = All(courses)
            /\ IF Len(All(courses)) > 0
               THEN idx' = 1 /\ Resume("sEnterCRN")
               ELSE idx' = 0 /\ AfterSearch(courses)
    /\ UNCHANGED <<rev, courses, confirmationSent, navTry, status>>
    /\ UNCHANGED <<mail, sig>>
    /\ UNCHANGED outage
    /\ UNCHANGED entry
    /\ UNCHANGED termCode
    /\ UNCHANGED <<attempts, lastErr>>

\* clear and fill #crnNumber, wait for and click #courseSearch
SearchEnterCRN(ok) ==
    /\ pc = "sEnterCRN"
    /\ IF ok THEN Resume("sWaitStatus") ELSE CatchCycle("crnEntry")
    /\ UNCHANGED <<rev, courses, confirmationSent, snapshot, idx, navTry, status>>
    /\ UNCHANGED <<mail, sig>>
    /\ UNCHANGED outage
    /\ UNCHANGED entry
    /\ UNCHANGED termCode
    /\ UNCHANGED <<attempts, lastErr>>

\* await page.waitForSelector(`#statusMessage${crn}`, { timeout: 5000 });
\* a timeout is caught by the catch of this iteration
SearchWaitStatus(ok) ==
    /\ pc = "sWaitStatus"
    /\ IF ok THEN idx' = idx /\ Resume("sReadStatus")
       ELSE SearchEndIteration(courses)
    /\ UNCHANGED <<rev, courses, confirmationSent, snapshot, navTry, status>>
    /\ UNCHANGED <<mail, sig>>
    /\ UNCHANGED outage
    /\ UNCHANGED entry
    /\ UNCHANGED termCode
    /\ UNCHANGED <<attempts, lastErr>>

\* statusMessage = await page.evaluate(...); the split and the tests, with
\* the call of sendEmailNotification when they pass
SearchReadStatus(ok, s) ==
    /\ pc = "sReadStatus"
    /\ IF ok /\ AvailableSeats(s)
       THEN status' = s /\ idx' = idx /\ Resume("sNotify")
       ELSE status' = NoStatus /\ SearchEndIteration(courses)
    /\ UNCHANGED <<rev, courses, confirmationSent, snapshot, navTry>>
    /\ UNCHANGED <<mail, sig>>
    /\ UNCHANGED outage
    /\ UNCHANGED entry
    /\ UNCHANGED termCode
    /\ UNCHANGED <<attempts, lastErr>>

\* await sendEmailNotification(...); monitor.courses.delete(crn);
\* a rejected send is caught by the catch of this iteration
SearchNotify(ok) ==
    /\ pc = "sNotify"
    /\ courses' = AfterSend(courses, snapshot[idx], ok)
    /\ IF ok
       THEN /\ noticeSends' = [noticeSends EXCEPT ![snapshot[idx]] = @ + 1]
            /\ failedSends' = failedSends
       ELSE /\ noticeSends' = noticeSends
            /\ failedSends' = failedSends \cup {snapshot[idx]}
    /\ status' = NoStatus
    /\ SearchEndIteration(courses')
    /\ UNCHANGED <<rev, confirmationSent, snapshot, navTry>>
    /\ UNCHANGED <<confSends, sig>>
    /\ UNCHANGED outage
    /\ UNCHANGED entry
    /\ UNCHANGED termCode
    /\ UNCHANGED <<attempts, lastErr>>

\* the browser.close() awaited by the try or by the catch resolves
SearchClosed ==
    /\ pc = "sClose"
    /\ pc' = "sSleep"
    /\ browser' = "closed"
    /\ UNCHANGED <<closeCalls, running, exitCode, err>>
    /\ UNCHANGED <<rev, courses, confirmationSent, snapshot, idx, navTry, status>>
    /\ UNCHANGED <<mail, sig>>
    /\ UNCHANGED outage
    /\ UNCHANGED entry
    /\ UNCHANGED termCode
    /\ UNCHANGED <<attempts, lastErr>>

\* the wait of CHECK_INTERVAL is over: return searchCourses(email), which
\* runs up to its probe; the finally of this call then closes its browser
\* once more.  The new call has no browser yet.
SearchSleep ==
    /\ pc = "sSleep"
    /\ pc' = "sProbe"
    /\ browser' = "undefined"
    /\ closeCalls' = closeCalls + 1
    /\ err' = "none"
    /\ UNCHANGED <<running, exitCode>>
    /\ UNCHANGED <<rev, courses, confirmationSent, snapshot, idx, navTry, status>>
    /\ UNCHANGED <<mail, sig>>
    /\ UNCHANGED outage
    /\ UNCHANGED entry
    /\ UNCHANGED termCode
    /\ UNCHANGED <<attempts, lastErr>>

\* ------------------------------------------------------- process end
\* the close awaited by the final cleanup() resolves: process.exit(0)
CleanupClosed ==
    /\ pc = "cleanup"
    /\ pc' = "exited"
    /\ browser' = "closed"
    /\ exitCode' = 0
    /\ UNCHANGED <<closeCalls, running, err>>
    /\ UNCHANGED <<rev, courses, confirmationSent, snapshot, idx, navTry, status>>
    /\ UNCHANGED <<mail, sig>>
    /\ UNCHANGED outage
    /\ UNCHANGED entry
    /\ UNCHANGED termCode
    /\ UNCHANGED <<attempts, lastErr>>

\* the close awaited by the top-level catch resolves: process.exit(1)
FatalClosed ==
    /\ pc = "fatalClose"
    /\ pc' = "exited"
    /\ browser' = "closed"
    /\ exitCode' = 1
    /\ UNCHANGED <<closeCalls, running, err>>
    /\ UNCHANGED <<rev, courses, confirmationSent, snapshot, idx, navTry, status>>
    /\ UNCHANGED <<mail, sig>>
    /\ UNCHANGED outage
    /\ UNCHANGED entry
    /\ UNCHANGED termCode
    /\ UNCHANGED <<attempts, lastErr>>

\* ------------------------------------------------------- stop signal
\* SIGINT or SIGTERM is delivered while the main coroutine is suspended:
\* cleanup() runs up to its `await browser.close()`
Signal ==
    /\ handlers
    /\ pc # "exited"
    /\ signals < MaxSignals
    /\ signals' = signals + 1
    /\ hpending' = hpending + 1
    /\ running' = (IF rev = "v20" THEN FALSE ELSE running)
    /\ browser' = Closing(browser)
    /\ closeCalls' = closeCalls + 1
    /\ UNCHANGED <<pc, exitCode, err, handlers>>
    /\ UNCHANGED <<rev, courses, confirmationSent, snapshot, idx, navTry, status>>
    /\ UNCHANGED mail
    /\ UNCHANGED outage
    /\ UNCHANGED entry
    /\ UNCHANGED termCode
    /\ UNCHANGED <<attempts, lastErr>>

\* the close awaited by a handler resolves; the handler of 2.1 goes on to
\* process.exit(0), the handler of 2.0 returns
HandlerClosed ==
    /\ hpending > 0
    /\ pc # "exited"
    /\ hpending' = hpending - 1
    /\ browser' = "closed"
    /\ IF rev = "v21"
       THEN pc' = "exited" /\ exitCode' = 0
       ELSE UNCHANGED <<pc, exitCode>>
    /\ UNCHANGED <<closeCalls, running, err, signals, handlers>>
    /\ UNCHANGED <<rev, courses, confirmationSent, snapshot, idx, navTry, status>>
    /\ UNCHANGED mail
    /\ UNCHANGED outage
    /\ UNCHANGED entry
    /\ UNCHANGED termCode
    /\ UNCHANGED <<attempts, lastErr>>

\* ------------------------------------------------------- probes
\* an awaited checkMiamiConnection() is settled by its lookup: its value
\* goes to the caller that awaits it (main, the while loop, searchCourses);
\* an exception would leave that caller for the top-level catch
Connection(lookup) ==
    IF CheckMiamiConnection(lookup).threw
    THEN /\ pc \in {"connect", "probe", "sProbe"}
         /\ Throw("lookup")
         /\ UNCHANGED <<rev, courses, confirmationSent, snapshot, idx, navTry, status>>
         /\ UNCHANGED <<mail, sig>>
         /\ UNCHANGED <<outage, entry, termCode, attempts, lastErr>>
    ELSE \/ InitialConnection(CheckMiamiConnection(lookup).value)
         \/ Probe(CheckMiamiConnection(lookup).value)
         \/ SearchProbe(CheckMiamiConnection(lookup).value)

\* ------------------------------------------------------- specification
Next ==
    \/ \E email \in Emails : EnterEmail(email)
    \/ \E year \in Years, termChoice \in TermChoices : EnterTerm(year, termChoice)
    \/ \E crn \in CRNs : AddCRN(crn)
    \/ StartRun
    \/ \E lookup \in LookupOutcomes : Connection(lookup)
    \/ \E ok \in BOOLEAN : Confirm(ok)
    \/ \E ok \in BOOLEAN : Launch(ok)
    \/ \E ok \in BOOLEAN : NewPage(ok)
    \/ Backoff
    \/ \E ok \in BOOLEAN : Navigate(ok)
    \/ RetryDelay
    \/ \E ok \in BOOLEAN : Filters(ok)
    \/ \E ok \in BOOLEAN : EnterCRN(ok)
    \/ \E ok \in BOOLEAN : WaitStatus(ok)
    \/ \E ok \in BOOLEAN, s \in StatusTexts : ReadStatus(ok, s)
    \/ \E ok \in BOOLEAN : Notify(ok)
    \/ Cadence
    \/ CleanupClosed
    \/ FatalClosed
    \/ Signal
    \/ HandlerClosed
    \/ SearchBackoff
    \/ \E ok \in BOOLEAN, retry \in BOOLEAN : SearchConfirm(ok, retry)
    \/ \E ok \in BOOLEAN : SearchLaunch(ok)
    \/ \E ok \in BOOLEAN : SearchGoto(ok)
    \/ \E ok \in BOOLEAN : SearchFilters(ok)
    \/ \E ok \in BOOLEAN : SearchEnterCRN(ok)
    \/ \E ok \in BOOLEAN : SearchWaitStatus(ok)
    \/ \E ok \in BOOLEAN, s \in StatusTexts : SearchReadStatus(ok, s)
    \/ \E ok \in BOOLEAN : SearchNotify(ok)
    \/ SearchClosed
    \/ SearchSleep

Spec == Init /\ [][Next]_vars

\* ------------------------------------------------------- liveness
\* The runs C4 is about, of the loop-based monitor: no stop signal arrives, page.goto succeeds within
\* the attempts of withRetry, and every call that is made again and again
\* (the probe, the status wait, the read of an open status for each CRN, the
\* notification send) succeeds in the end.
ReadOpen(c) ==
    /\ pc = "readStatus"
    /\ snapshot[idx] = c
    /\ \E s \in StatusTexts :
         /\ Len(s.f) = 2 /\ s.extra = 0
         /\ s.f[1].k = "num" /\ s.f[2].k = "num"
         /\ SeatsAvailable(s)
         /\ ReadStatus(TRUE, s)

NextLive ==
    \/ \E email \in Emails : EnterEmail(email)
    \/ \E year \in Years, termChoice \in TermChoices : EnterTerm(year, termChoice)
    \/ \E crn \in CRNs : AddCRN(crn)
    \/ StartRun
    \/ \E lookup \in LookupOutcomes : Connection(lookup)
    \/ \E ok \in BOOLEAN : Confirm(ok)
    \/ \E ok \in BOOLEAN : Launch(ok)
    \/ \E ok \in BOOLEAN : NewPage(ok)
    \/ Backoff
    \/ \E ok \in BOOLEAN :
         (ok \/ Retrying(navTry, attempts)) /\ Navigate(ok)
    \/ RetryDelay
    \/ \E ok \in BOOLEAN : Filters(ok)
    \/ \E ok \in BOOLEAN : EnterCRN(ok)
    \/ \E ok \in BOOLEAN : WaitStatus(ok)
    \/ \E ok \in BOOLEAN, s \in StatusTexts : ReadStatus(ok, s)
    \/ \E ok \in BOOLEAN : Notify(ok)
    \/ Cadence
    \/ CleanupClosed
    \/ FatalClosed

Fairness ==
    /\ WF_vars(NextLive)
    /\ SF_vars(Probe(TRUE))
    /\ SF_vars(Navigate(TRUE))
    /\ SF_vars(WaitStatus(TRUE))
    /\ \A c \in CRNs : SF_vars(ReadOpen(c))
    /\ SF_vars(Notify(TRUE))

LiveInit == Init /\ rev \in LoopRevisions

LiveSpec == LiveInit /\ [][NextLive]_vars /\ Fairness

\* ------------------------------------------------------- withRetry alone
\* withRetry for any number of attempts: the monitor is at the first call of
\* fn, in an iteration of the loop, and `attempts` is any number from 1 on
Registries ==
    {m \in UNION {[1..n -> CRNs] : n \in 1..NumCRNs} :
        \A i, j \in 1..Len(m) : m[i] = m[j] => i = j}

TermCodes ==
    {year \o TermMap(termChoice).s : year \in Years, termChoice \in {"1", "2", "3", "4"}}

RetryInit ==
    /\ rev \in LoopRevisions
    /\ pc = "goto"
    /\ courses \in Registries
    /\ confirmationSent = TRUE
    /\ browser = "open"
    /\ handlers = TRUE
    /\ running = TRUE
    /\ snapshot = <<>>
    /\ idx = 0
    /\ navTry = 0
    /\ status = NoStatus
    /\ err = "none"
    /\ exitCode = -1
    /\ hpending = 0
    /\ signals = 0
    /\ confSends = 1
    /\ noticeSends = [c \in CRNs |-> 0]
    /\ failedSends = {}
    /\ closeCalls = 0
    /\ outage = 0
    /\ entry = "none"
    /\ termCode \in {code \in TermCodes : IsTermCode(code)}
    /\ attempts \in 1..MaxAttempts
    /\ lastErr = 0

RetryNext ==
    \/ \E ok \in BOOLEAN : Navigate(ok)
    \/ RetryDelay
    \/ FatalClosed

RetrySpec == RetryInit /\ [][RetryNext]_vars

\* ------------------------------------------------------- claims
\* the CRN the for-of of pollOnce (of searchCourses) is at
InPoll == pc \in {"enterCRN", "waitStatus", "readStatus", "notify",
                  "sEnterCRN", "sWaitStatus", "sReadStatus", "sNotify"}
Crn == snapshot[idx]

\* the prompts of main are over and none of them ended the run
SetupDone ==
    /\ pc \notin {"email", "term", "setup"}
    /\ err \notin {"email", "term", "termCode"}

\* a status text of the shape <digits>/<digits>
WellFormed(s) ==
    /\ Len(s.f) = 2
    /\ s.extra = 0
    /\ s.f[1].k = "num"
    /\ s.f[2].k = "num"

\* where the for-of goes after snapshot[idx] when the cycle is not cut short
ContinuesCycle ==
    IF idx < Len(snapshot)
    THEN pc' = "enterCRN" /\ idx' = idx + 1
    ELSE pc' \in {"cadence", "cleanup"}

\* C1: a CRN leaves the registry only in the step in which the mail send for
\* that same CRN, awaited by the poll cycle, is accepted.
C1_RemovalOnlyOnSend ==
    [][\A c \in CRNs :
         (c \in Keys(courses) /\ c \notin Keys(courses'))
            => /\ pc \in {"notify", "sNotify"}
               /\ Crn = c
               /\ noticeSends'[c] = noticeSends[c] + 1]_vars

C1_Witness ==
    \E c \in CRNs :
        /\ c \notin Keys(courses)
        /\ noticeSends[c] = 1
        /\ Size(courses) > 0

\* C2: at most one seat notification is accepted per CRN; a notified CRN is
\* not in the registry, and no iteration of a poll cycle is at a notified CRN.
C2_AtMostOneNotification ==
    /\ \A c \in CRNs :
         /\ noticeSends[c] <= 1
         /\ noticeSends[c] = 1 => c \notin Keys(courses)
    /\ InPoll => noticeSends[Crn] = 0

C2_Witness ==
    /\ pc \in {"enterCRN", "sEnterCRN"}
    /\ \E c \in CRNs : noticeSends[c] = 1 /\ c \notin Keys(snapshot)

\* C3: a rejected notification send leaves the registry as it is, the for-of
\* goes on to the next CRN of the snapshot (or the cycle ends in the cadence
\* sleep), and the snapshot of every cycle is the whole registry, so the CRN
\* is read again in the next cycle.
C3_SendFailureKeepsCRN ==
    [][/\ (pc = "notify" /\ pc' \notin {"notify", "exited"}
              /\ noticeSends' = noticeSends)
          => /\ courses' = courses
             /\ Crn \in Keys(courses')
             /\ IF idx < Len(snapshot)
                THEN pc' = "enterCRN" /\ idx' = idx + 1
                ELSE pc' = "cadence"
       /\ (pc = "filters" /\ pc' = "enterCRN") => snapshot' = courses]_vars

C3_Witness ==
    /\ pc = "notify"
    /\ Crn \in failedSends
    /\ Crn \in Keys(courses)

\* C4: in the runs of LiveSpec, every CRN that is monitored when the loop is
\* at its probe is eventually notified and removed.
C4_EventuallyNotified ==
    \A c \in CRNs :
        (pc = "probe" /\ c \in Keys(courses))
            ~> (noticeSends[c] >= 1 /\ c \notin Keys(courses))

\* C5: a timeout of the status wait for CRN A, or an unparseable status text
\* for A, does not stop the cycle (the CRN after A is searched next) and A
\* stays in the registry.
C5_Isolation ==
    [][/\ (pc = "waitStatus" /\ pc' \notin {"waitStatus", "readStatus", "exited"})
          => ContinuesCycle /\ courses' = courses
       /\ (pc = "notify" /\ ~WellFormed(status) /\ pc' \notin {"notify", "exited"})
          => ContinuesCycle /\ Crn \in Keys(courses')]_vars

\* C6: in the loop-based monitor a failure of the filter steps or of the CRN
\* entry never reaches the top-level catch.
C6_NoUnwind == rev \in LoopRevisions => err \notin {"filters", "crnEntry"}

\* C7: when page.goto fails on the last attempt of withRetry, the loop goes
\* on to the cadence sleep with the registry unchanged and the process alive.
C7_FailedCycle ==
    [][(navTry = DefaultAttempts - 1 /\ Navigate(FALSE))
          => /\ pc' = "cadence"
             /\ courses' = courses
             /\ exitCode' = -1]_vars

\* C8: a rejected confirmation send is followed by the browser launch, and
\* the process does not exit because of it.
C8_ConfirmationAdvisory ==
    [][Confirm(FALSE) => (pc' = "launch" /\ exitCode' = -1)]_vars

\* C9: the confirmation mail is accepted at most once; confirmationSent is
\* set by that send, never cleared, and no confirmation send is awaited
\* once it is set.
C9_ConfirmationOnce ==
    [][/\ confSends' <= 1
       /\ confSends' = 1 => confirmationSent'
       /\ confirmationSent => (confirmationSent'
                                  /\ pc' \notin {"confirm", "sConfirm"}
                                  /\ confSends' = confSends)]_vars

C9_Witness ==
    /\ confirmationSent
    /\ confSends = 1
    /\ pc \in {"cadence", "sSleep"}
    /\ \E c \in CRNs : c \in failedSends

\* C10: once the registry is empty the loop is in its final cleanup or the
\* process has exited with code 0: no sleep, probe, navigation or poll cycle.
C10_Done ==
    (SetupDone /\ Size(courses) = 0)
       => /\ pc \in {"cleanup", "exited"}
          /\ pc = "exited" => exitCode = 0

C10_Witness ==
    /\ pc = "exited"
    /\ exitCode = 0
    /\ Size(courses) = 0
    /\ signals = 0

\* where the monitor is between a probe and the end of its back-off wait
AtProbe == pc \in {"probe", "sProbe"}
InBackoff == pc \in {"backoff", "sBackoff"}

\* C11: a probe that returns false is followed by the back-off wait, and the
\* wait by the next probe (unless a stop signal came); no step taken at a
\* probe or in a back-off wait navigates, polls, sends mail or changes the
\* registry.  By induction this holds for any number of failed probes in a row.
C11_BackoffFrame ==
    [][/\ (Probe(FALSE) \/ SearchProbe(FALSE)) => (pc' \in {"backoff", "sBackoff"})
       /\ (InBackoff /\ pc' # pc /\ signals = 0) => (pc' \in {"probe", "sProbe"})
       /\ ((AtProbe \/ InBackoff) /\ outage' > 0)
            => /\ courses' = courses
               /\ mail' = mail
               /\ snapshot' = snapshot /\ idx' = idx /\ navTry' = navTry
               /\ pc' \notin {"goto", "filters", "sGoto", "sFilters", "cadence"}]_vars

C11_Witness ==
    /\ pc = "backoff"
    /\ outage = MaxOutage
    /\ Size(courses) = NumCRNs
    /\ signals = 0

\* C12: an unreachable probe never ends the process, however many came
\* before it; the first reachable probe after an outage goes on to the
\* navigation (in revision 1: to the confirmation or the launch that precede
\* it), and a navigation that succeeds is followed by the poll cycle.
C12_OutageNotFatal ==
    [][/\ (Probe(FALSE) \/ SearchProbe(FALSE))
            => (exitCode' = -1 /\ err' = err /\ pc' \notin {"fatalClose", "cleanup", "exited"})
       /\ (InBackoff /\ signals = 0)
            => (exitCode' = -1 /\ pc' \notin {"fatalClose", "cleanup", "exited"})
       /\ (outage > 0 /\ Probe(TRUE)) => (pc' = "goto" /\ outage' = 0)
       /\ (outage > 0 /\ SearchProbe(TRUE)) => (pc' \in {"sConfirm", "sLaunch"})
       /\ Navigate(TRUE) => pc' = "filters"]_vars

C12_Witness ==
    /\ InBackoff
    /\ outage = MaxOutage
    /\ exitCode = -1
    /\ \E c \in CRNs : noticeSends[c] = 1
    /\ signals = 0

\* C13: in pollOnce a status text that is not <digits>/<digits> never gets
\* as far as the notification send (and so is never removed for it).
C13_MalformedIsFailure == pc = "notify" => WellFormed(status)

\* capacity - current of a well-formed status text
OpenSeats(s) == s.f[2].v - s.f[1].v

\* the status texts <current>/<capacity> with capacity - current > 0
OpenTexts ==
    {[f |-> <<[k |-> "num", v |-> c], [k |-> "num", v |-> c + d]>>, extra |-> 0] :
        c \in 0..(MaxSeats - 1), d \in 1..MaxSeats} \cap StatusTexts

\* the for-of goes on after a reading that called for nothing: next CRN, or
\* the end of the cycle
NothingToDo ==
    /\ courses' = courses
    /\ mail' = mail
    /\ IF idx < Len(snapshot)
       THEN pc' \in {"enterCRN", "sEnterCRN"} /\ idx' = idx + 1
       ELSE pc' \in {"cadence", "sClose"}

\* C14: a well-formed reading current/capacity leads to the notification
\* send for that CRN only when capacity - current > 0, and a reading that
\* does not lead to it is none with capacity - current > 0 and is followed
\* by no send, no removal and the next CRN (or the end of the cycle);
\* the send is awaited once: whatever its outcome, the for-of leaves it.
C14_NotifyIffOpen ==
    [][/\ (pc \in {"readStatus", "sReadStatus"} /\ pc' \in {"notify", "sNotify"})
            => /\ WellFormed(status') => OpenSeats(status') > 0
               /\ snapshot'[idx'] = Crn
               /\ courses' = courses
               /\ mail' = mail
       /\ (pc \in {"readStatus", "sReadStatus"}
              /\ pc' \notin {"readStatus", "sReadStatus", "notify", "sNotify", "exited"})
            => /\ NothingToDo
               /\ \A s \in OpenTexts :
                    ~(ReadStatus(TRUE, s) \/ SearchReadStatus(TRUE, s))
       /\ (pc \in {"notify", "sNotify"} /\ pc' # pc)
            => /\ pc' \notin {"notify", "sNotify"}
                  /\ noticeSends'[Crn] + (IF Crn \in failedSends' THEN 1 ELSE 0)
                        <= noticeSends[Crn] + 1 + (IF Crn \in failedSends THEN 1 ELSE 0)
                  /\ \A c \in CRNs \ {Crn} : noticeSends'[c] = noticeSends[c]]_vars

C14_Witness ==
    /\ pc \in {"notify", "sNotify"}
    /\ WellFormed(status)
    /\ OpenSeats(status) > 0
    /\ idx = 2
    /\ snapshot[1] \in Keys(courses)
    /\ noticeSends[snapshot[1]] = 0
    /\ snapshot[1] \notin failedSends

\* C15: in the loop-based monitor browser.close() is never called a second
\* time, and a run that launched a browser has called it once when it exits.
C15_ClosedOnce ==
    rev \in LoopRevisions
        => /\ closeCalls <= 1
           /\ (pc = "exited" /\ browser # "undefined") => closeCalls = 1

\* C16: once a stop signal has been received by a run that had not failed,
\* no error reaches the top-level catch and the exit code is 0.
C16_StopExitsZero ==
    [][(rev \in LoopRevisions /\ signals > 0 /\ err = "none")
          => (err' = "none" /\ exitCode' \in {-1, 0})]_vars

\* C17: once the handler of a stop signal has returned, the loop starts no
\* navigation, no poll cycle, no sleep and no mail send.
C17_NoNewWork ==
    [][(signals > 0 /\ hpending = 0 /\ pc # "exited" /\ pc' # pc)
          => pc' \notin {"goto", "filters", "cadence", "backoff", "retryDelay",
                         "notify"}]_vars

\* the loop-based monitor is between two poll cycles
BetweenCycles ==
    pc \in {"probe", "backoff", "goto", "retryDelay", "filters", "cadence"}

\* C18: in the loop-based monitor the for-of takes the CRNs of the snapshot
\* one by one in registry order; the cadence sleep starts only when the
\* whole snapshot has been processed; an iteration of the loop starts only
\* after the launch, after a completed cadence sleep or after a back-off
\* wait, and a poll cycle only through the probe and the navigation of such
\* an iteration.
C18_Sequential ==
    [][/\ (pc' = "enterCRN" /\ pc # "enterCRN")
            => IF pc = "filters"
               THEN snapshot' = courses /\ idx' = 1
               ELSE /\ pc \in {"waitStatus", "readStatus", "notify"}
                    /\ snapshot' = snapshot
                    /\ idx' = idx + 1
       /\ (pc' = "cadence" /\ pc # "cadence")
            => /\ pc \in {"waitStatus", "readStatus", "notify"}
               /\ idx = Len(snapshot)
       /\ (pc' = "probe" /\ pc # "probe")
            => pc \in {"newPage", "cadence", "backoff"}
       /\ (pc' = "goto" /\ pc # "goto") => pc \in {"probe", "retryDelay"}
       /\ (pc' = "filters" /\ pc # "filters") => pc = "goto"
       /\ (rev \in LoopRevisions /\ BetweenCycles) => idx = Len(snapshot)]_vars

C18_Witness ==
    /\ pc = "filters"
    /\ Len(snapshot) >= 2
    /\ idx = Len(snapshot)
    /\ Size(courses) < Len(snapshot)
    /\ Size(courses) > 0

NoDup(m) == \A i, j \in 1..Len(m) : m[i] = m[j] => i = j

C20_AddIdempotent ==
    /\ \A crn \in Keys(courses) :
          Add(courses, crn) = courses /\ Size(Add(courses, crn)) = Size(courses)
    /\ NoDup(courses)
    /\ Size(courses) = Cardinality(Keys(courses))
    /\ Len(snapshot) = Cardinality(Keys(snapshot))

C20_Witness ==
    /\ pc = "setup"
    /\ entry = "duplicate"
    /\ Size(courses) = 1

\* the CRN input loop of main, the only caller of monitor.add
InSetup == pc = "setup"

\* C21: once the CRN input loop is left the registry only shrinks: a step
\* either leaves it as it is or is the accepted notification send of a poll
\* cycle, which removes the CRN of that iteration and nothing else; nothing
\* is added or reordered.
C21_OnlyShrinks ==
    [][~InSetup =>
          \/ courses' = courses
          \/ /\ pc \in {"notify", "sNotify"}
             /\ Crn \in Keys(courses)
             /\ courses' = Delete(courses, Crn)
             /\ Keys(courses') = Keys(courses) \ {Crn}]_vars

C21_Witness ==
    /\ pc \in {"cadence", "sSleep"}
    /\ Size(courses) > 0
    /\ Size(courses) < Len(snapshot)
    /\ failedSends # {}

\* C25: when the page session cannot be established (puppeteer.launch
\* rejects, or newPage or the page configuration rejects) the monitor is
\* aborted: no poll cycle has started and none starts, nothing was sent for
\* a seat, the registry is left as it is, a browser that was launched is
\* closed by the one close call of the top-level catch, and the exit code
\* is 1.
C25_SessionFailureAborts ==
    /\ [](  (rev \in LoopRevisions /\ err \in {"launch", "page"}) =>
              /\ pc \in {"fatalClose", "exited"}
              /\ exitCode = (IF pc = "exited" THEN 1 ELSE -1)
              /\ snapshot = <<>> /\ idx = 0 /\ navTry = 0
              /\ \A c \in CRNs : noticeSends[c] = 0
              /\ failedSends = {}
              /\ Size(courses) > 0
              /\ ~handlers
              /\ IF err = "launch"
                 THEN browser = "undefined" /\ closeCalls = 0
                 ELSE /\ closeCalls = 1
                      /\ browser = (IF pc = "exited" THEN "closed" ELSE "closing") )
    /\ [][(rev \in LoopRevisions /\ err' \in {"launch", "page"}) =>
              courses' = courses]_vars

C25_Witness ==
    /\ rev \in LoopRevisions
    /\ err = "page"
    /\ pc = "exited"
    /\ browser = "closed"
    /\ Size(courses) = NumCRNs

\* pollOnce of the loop-based monitor is running
PollOnce == pc \in {"filters", "enterCRN", "waitStatus", "readStatus", "notify"}

\* C27: in the loop-based monitor pollOnce is entered only by the step in
\* which page.goto resolves within the attempts of withRetry, and the
\* navigation is started only by a probe of the same iteration that
\* returned true; a failed probe leads to the back-off wait and a failed
\* last attempt to the top-level catch, neither to pollOnce; and when
\* pollOnce is left the iteration is over (cadence sleep, cleanup or exit),
\* so an iteration runs at most one poll cycle.
C27_PollAfterProbeAndNavigation ==
    [][/\ (pc' = "filters" /\ pc # "filters")
            => Navigate(TRUE) /\ navTry < DefaultAttempts /\ outage = 0
       /\ (pc' = "goto" /\ pc # "goto")
            => Probe(TRUE) \/ (RetryDelay /\ outage = 0)
       /\ (pc' = "retryDelay" /\ pc # "retryDelay")
            => Navigate(FALSE) /\ navTry < DefaultAttempts - 1
       /\ (pc = "probe" /\ pc' # "probe" /\ outage' # 0)
            => pc' \in {"backoff", "exited"}
       /\ (pc = "goto" /\ pc' \notin {"goto", "filters", "retryDelay"})
            => pc' \in {"fatalClose", "exited"}
       /\ (PollOnce /\ ~PollOnce')
            => pc' \in {"cadence", "cleanup", "fatalClose", "exited"}
       /\ (pc \in {"goto", "retryDelay"} \/ PollOnce) => outage = 0]_vars

C27_Witness ==
    /\ pc = "filters"
    /\ outage = 0
    /\ failedSends # {}
    /\ signals = 0
    /\ Size(courses) = Len(snapshot)

\* a seat notification send is being awaited or was awaited
NotificationAttempted ==
    \/ pc \in {"notify", "sNotify"}
    \/ \E c \in CRNs : noticeSends[c] > 0
    \/ failedSends # {}

\* C28: in the loop-based monitor every state in which a seat notification
\* send is or was attempted has confirmationSent set, by the one
\* confirmation mail the relay accepted before the browser was launched.
C28_NotifyOnlyAfterConfirmation ==
    (rev \in LoopRevisions /\ (NotificationAttempted \/ browser # "undefined"))
        => confirmationSent /\ confSends = 1

C28_Witness ==
    /\ rev \in LoopRevisions
    /\ pc = "notify"
    /\ confirmationSent
    /\ failedSends # {}
    /\ \E c \in CRNs : noticeSends[c] = 1

\* searchCourses is running
InSearch == pc \in {"sProbe", "sBackoff", "sConfirm", "sLaunch", "sGoto",
                    "sFilters", "sEnterCRN", "sWaitStatus", "sReadStatus",
                    "sNotify", "sClose", "sSleep"}

\* a failure of the navigation, of the filter steps or of the CRN entry is
\* caught: the browser of the cycle gets its close call, the process lives,
\* the registry is as it was; the close is followed by the cadence wait and
\* the wait by the probe of a new cycle
CaughtAndRetried ==
    /\ (SearchGoto(FALSE) \/ SearchFilters(FALSE) \/ SearchEnterCRN(FALSE))
          => /\ pc' = "sClose"
             /\ exitCode' = -1
             /\ courses' = courses
             /\ closeCalls' = closeCalls + 1
             /\ browser' = "closing"
    /\ pc = "sClose"
          => /\ pc' \in {"sClose", "sSleep"}
             /\ courses' = courses
             /\ pc' = "sSleep" => browser' = "closed"
    /\ pc = "sSleep"
          => /\ pc' \in {"sSleep", "sProbe"}
             /\ courses' = courses

\* searchCourses ends the process
SearchExits == InSearch /\ pc' = "exited"

\* the two exits the claim names
NamedExits ==
    \/ Size(courses') = 0 /\ exitCode' = 0
    \/ SearchConfirm(FALSE, FALSE) /\ exitCode' = 1

\* C29 as stated: in revision 1 a failed navigation, filter step or CRN
\* entry is caught and retried after the cadence wait, and searchCourses
\* ends the process only with code 0 on an empty registry or with code 1
\* when the operator declines after a rejected confirmation send.
C29_OnlyTwoExits ==
    [][rev = "v1" => CaughtAndRetried /\ (SearchExits => NamedExits)]_vars

\* C29, amended: as above, with the third exit of searchCourses: a rejected
\* puppeteer.launch, which is outside the try, ends the process with code 1.
C29_CaughtOrSessionFailure ==
    [][rev = "v1" =>
          /\ CaughtAndRetried
          /\ SearchExits =>
                \/ NamedExits
                \/ SearchLaunch(FALSE) /\ exitCode' = 1 /\ err' = "launch"]_vars

C29_Witness ==
    /\ rev = "v1"
    /\ pc = "sSleep"
    /\ err = "crnEntry"
    /\ browser = "closed"
    /\ exitCode = -1
    /\ Size(courses) = NumCRNs

SetupAborted == err \in {"email", "term", "termCode", "network"}

\* C22: an email that does not end in the domain, a term choice that is not
\* one of 1..4, a generated term code that is not six digits, and a false
\* probe at the end of setup each end the process with code 1 in the very
\* step they are met; in every run ended that way no confirmation mail was
\* sent, no browser was launched or closed and no poll cycle has run.
C22_SetupFailuresAbort ==
    /\ [](SetupAborted =>
             /\ pc = "exited"
             /\ exitCode = 1
             /\ confSends = 0
             /\ ~confirmationSent
             /\ browser = "undefined"
             /\ closeCalls = 0
             /\ ~handlers
             /\ snapshot = <<>>)
    /\ [][/\ pc = "email" =>
               \A email \in Emails :
                   (EnterEmail(email) /\ ~EndsWith(email, MIAMI_EMAIL_DOMAIN))
                       => pc' = "exited" /\ exitCode' = 1 /\ err' = "email"
          /\ pc = "term" =>
               \A year \in Years, termChoice \in TermChoices :
                   ( /\ EnterTerm(year, termChoice)
                     /\ \/ termChoice \notin {"1", "2", "3", "4"}
                        \/ ~IsTermCode(year \o TermMap(termChoice).s) )
                       => /\ pc' = "exited"
                          /\ exitCode' = 1
                          /\ err' \in {"term", "termCode"}
          /\ pc = "connect" =>
               \A lookup \in LookupOutcomes \ {"address"} :
                   Connection(lookup)
                       => pc' = "exited" /\ exitCode' = 1 /\ err' = "network"]_vars

C22_Witness ==
    /\ pc = "exited"
    /\ exitCode = 1
    /\ err = "termCode"
    /\ Len(termCode) = TermCodeLen
    /\ ~IsTermCode(termCode)

\* C23: the CRN prompts are left only with a registry that is not empty: an
\* empty input on an empty registry asks again; so the registry is not
\* empty when the final probe, the confirmation mail and the launch happen,
\* and after setup it is empty only once every CRN has been notified.
C23_NonEmptyRegistry ==
    /\ entry = "empty" => pc = "setup" /\ Size(courses) = 0
    /\ pc \in {"connect", "confirm", "sConfirm", "launch", "sLaunch", "newPage"}
          => Size(courses) > 0
    /\ (SetupDone /\ Size(courses) = 0)
          => /\ \A c \in CRNs : noticeSends[c] <= 1
             /\ \E c \in CRNs : noticeSends[c] = 1
    /\ confSends > 0 => Len(snapshot) > 0 \/ Size(courses) > 0

C23_Witness ==
    /\ pc = "setup"
    /\ entry = "empty"
    /\ Size(courses) = 0
    /\ err = "none"

\* C24: checkMiamiConnection never throws and returns true exactly when the
\* lookup gave an address; every other outcome of the lookup gives false,
\* which leads to the back-off wait (or, in main, to exit code 1); the step
\* in which a probe is settled changes nothing of the registry, the flags,
\* the mails, the browser or the term code.
C24_ProbeTotal ==
    /\ [](/\ \A lookup \in LookupOutcomes :
                /\ ~CheckMiamiConnection(lookup).threw
                /\ CheckMiamiConnection(lookup).value \in BOOLEAN
                /\ CheckMiamiConnection(lookup).value <=> lookup = "address"
          /\ err # "lookup")
    /\ [][(pc \in {"connect", "probe", "sProbe"}) =>
             \A lookup \in LookupOutcomes :
                 Connection(lookup) =>
                    /\ UNCHANGED <<courses, confirmationSent, termCode, snapshot,
                                   idx, status, mail, browser, closeCalls,
                                   handlers, navTry>>
                    /\ lookup # "address"
                          => pc' \in {"backoff", "sBackoff", "exited"}
                    /\ lookup = "address"
                          => pc' \in {"confirm", "launch", "goto", "sProbe",
                                      "sConfirm", "sLaunch"}]_vars

C24_Witness ==
    /\ pc = "backoff"
    /\ outage = 1
    /\ Len(snapshot) = NumCRNs
    /\ signals = 0
    /\ exitCode = -1

\* C26: withRetry calls fn at most `attempts` times (call navTry + 1 is the
\* one awaited or the last one made); a call that succeeds ends it, with no
\* further call or wait; a failed call is followed by the wait unless it
\* was call number `attempts`, and then its error, the one of the last
\* call, is thrown, after attempts - 1 waits; the waits so far are navTry.
C26_WithRetry ==
    /\ [](/\ navTry + 1 <= attempts
          /\ lastErr <= attempts
          /\ attempts = DefaultAttempts => navTry + 1 <= DefaultAttempts
          /\ pc = "goto" => lastErr = navTry
          /\ pc = "retryDelay" => lastErr = navTry + 1 /\ navTry + 1 < attempts
          /\ err = "nav" => /\ pc \in {"fatalClose", "exited"}
                            /\ navTry = attempts - 1
                            /\ lastErr = attempts)
    /\ [][/\ Navigate(TRUE) => pc' = "filters" /\ err' = "none"
          /\ Navigate(FALSE) =>
                IF navTry + 1 < attempts
                THEN pc' = "retryDelay" /\ err' = "none"
                ELSE pc' \notin {"retryDelay", "goto", "filters"} /\ err' = "nav"
          /\ RetryDelay => pc' = "goto" /\ navTry' = navTry + 1
          /\ pc = "filters" => pc' = "filters"]_vars

C26_Witness ==
    /\ err = "nav"
    /\ pc = "exited"
    /\ attempts = MaxAttempts
    /\ lastErr = MaxAttempts
    /\ navTry = MaxAttempts - 1

\* C31: in revision 1 the only browser that can be open is the one of the
\* current call of searchCourses: a browser is launched only by a call that
\* has none, the cadence wait starts only when the close of the cycle's
\* browser has resolved (after the for-of and after the catch alike), the
\* next call starts without a browser only then, and a call whose probe
\* fails waits and probes again without a launch.
C31_OneBrowser ==
    /\ [](rev = "v1" =>
             /\ pc \in {"sProbe", "sBackoff", "sConfirm", "sLaunch"}
                   => browser = "undefined"
             /\ pc \in {"sGoto", "sFilters", "sEnterCRN", "sWaitStatus",
                        "sReadStatus", "sNotify"} => browser = "open"
             /\ pc = "sClose" => browser = "closing"
             /\ pc = "sSleep" => browser = "closed"
             /\ hpending = 0)
    /\ [][rev = "v1" =>
             /\ (browser' = "open" /\ browser # "open")
                   => SearchLaunch(TRUE) /\ browser = "undefined"
             /\ (browser' = "undefined" /\ browser # "undefined")
                   => SearchSleep /\ browser = "closed"
             /\ (pc' = "sSleep" /\ pc # "sSleep")
                   => SearchClosed /\ closeCalls = 1
             /\ SearchProbe(FALSE)
                   => pc' = "sBackoff" /\ browser' = "undefined"
             /\ pc = "sBackoff"
                   => pc' \in {"sBackoff", "sProbe"} /\ browser' = browser]_vars

C31_Witness ==
    /\ rev = "v1"
    /\ pc = "sGoto"
    /\ browser = "open"
    /\ closeCalls = 0
    /\ Len(snapshot) > 0
    /\ failedSends # {}

\* the suffixes of Fall, Winter, Spring and Summer
TermSuffixes == {<<"1", "0">>, <<"1", "5">>, <<"2", "0">>, <<"3", "0">>}

\* the last two characters of a text of at least two
Suffix(code) == SubSeq(code, Len(code) - 1, Len(code))

\* the term prompts of a loop-based revision are over and did not end the run
TermFixed ==
    /\ rev \in LoopRevisions
    /\ pc \notin {"email", "term"}
    /\ err \notin {"email", "term", "termCode"}

\* C32: from the end of the term prompts on, through the loop and every
\* poll cycle, termCode is six digits that end in 10, 15, 20 or 30, for
\* every year and term choice that pass the tests of main; no step after
\* the term prompts changes it; and confirmationSent changes only once,
\* from false to true, in the step in which the confirmation mail is
\* accepted.
C32_SessionStateFixed ==
    /\ [](/\ TermFixed =>
                /\ IsTermCode(termCode)
                /\ Suffix(termCode) \in TermSuffixes
          /\ pc = "term" =>
              \A year \in Years, termChoice \in TermChoices \cup {"2", "3"} :
                ( /\ Truthy(TermMap(termChoice))
                  /\ IsTermCode(year \o TermMap(termChoice).s) )
                    => /\ termChoice \in {"1", "2", "3", "4"}
                       /\ Suffix(year \o TermMap(termChoice).s) \in TermSuffixes
                       /\ SubSeq(year \o TermMap(termChoice).s, 1, Len(year)) = year)
    /\ [][/\ pc # "term" => termCode' = termCode
          /\ confirmationSent => confirmationSent'
          /\ (confirmationSent' # confirmationSent)
                => /\ pc \in {"confirm", "sConfirm"}
                   /\ confSends = 0
                   /\ confSends' = 1]_vars

C32_Witness ==
    /\ rev \in LoopRevisions
    /\ pc = "filters"
    /\ Len(snapshot) > 0
    /\ confirmationSent
    /\ IsTermCode(termCode)
    /\ Suffix(termCode) = <<"3", "0">>

====
